---- MODULE Spec2Model ----
(***************************************************************************)
(* Catalog cache, search and delivery of filmzy-bot (src/bot.py).          *)
(*                                                                         *)
(* The model follows one in-flight update handler between its awaits.      *)
(* Everything between two awaits of a coroutine is one action.  Other      *)
(* conversations and the admin flow touch the shared state only through    *)
(* refresh_movie_cache and the *_movie_*_db functions, none of which       *)
(* awaits, so they appear as single actions that may run at any await of   *)
(* the in-flight handler.                                                  *)
(*                                                                         *)
(* Text is a sequence of one-character strings, time is an integer number  *)
(* of clock ticks since datetime.min.                                      *)
(***************************************************************************)
EXTENDS Integers, Sequences, FiniteSets

VARIABLES
    store,                 \* rows of table movies, in rowid order
    movie_cache,           \* global movie_cache (bot.py:171)
    last_cache_refresh,    \* global last_cache_refresh (bot.py:172)
    now,                   \* what datetime.now() returns
    pc,                    \* the await the in-flight handler is suspended at
    kind,                  \* which handler is (or was last) in flight
    text,                  \* its message text or inline query
    data,                  \* its callback data
    user,                  \* update.effective_user.id
    results,               \* local `results` of the search
    idx,                   \* position of the loop over results[:10]
    sent_count,            \* local sent_count
    calls,                 \* one record per call of send_movie_to_user
    replies,               \* the handler's own reply / edit / answer calls
    raised,                \* the handler ended with an exception
    refresh_ret,           \* what refresh_movie_cache returned in the last step
    checked,               \* the staleness check the handler in flight made
    categories,            \* names in table categories
    duplicates             \* what find_duplicate_movies returned in the last step

vars == <<store, movie_cache, last_cache_refresh, now, pc, kind, text, data, user,
          results, idx, sent_count, calls, replies, raised, refresh_ret, checked,
          categories, duplicates>>

shared == <<store, movie_cache, last_cache_refresh, now>>
request == <<pc, kind, text, data, user, results, idx, sent_count, calls, replies, raised>>
admin == <<categories, duplicates>>

----------------------------------------------------------------------------
(* Values *)

None == "None"

\* Python's True and False where a name holds them or something else
True == "True"
False == "False"

\* Python truthiness of an optional text value: None and '' are false.
Falsy(x) == x = None \/ x = ""

ADMIN_USER_ID == "admin"
OtherUser == "user"
Users == {ADMIN_USER_ID, OtherUser}
STORAGE_CHANNEL_ID == "storage_channel"

CACHE_REFRESH_INTERVAL == 300
MinQueryLen == 2
BatchCap == 10
InlineCap == 50
CategoryListCap == 20

Min(a, b) == IF a <= b THEN a ELSE b

----------------------------------------------------------------------------
(* Time.  datetime values are ticks since datetime.min; a timedelta is a    *)
(* difference of two of them, normalised by Python to days, seconds in      *)
(* 0..86399 and a sub-second rest.                                          *)

TicksPerSecond == 2
SecondsPerDay == 24 * 3600
TicksPerDay == SecondsPerDay * TicksPerSecond

DatetimeMin == 0

\* timedelta.seconds: the seconds field of the normalised difference.
TimedeltaSeconds(td) == (td % TicksPerDay) \div TicksPerSecond

\* (datetime.now() - last_cache_refresh).seconds > CACHE_REFRESH_INTERVAL
IsStale(t, refreshed) ==
    TimedeltaSeconds(t - refreshed) > CACHE_REFRESH_INTERVAL

\* The process starts at 00:01:40 of some day; later instants the clock shows.
StartTime == 3 * TicksPerDay + 100 * TicksPerSecond
ClockOffsets ==
    { 0,
      CACHE_REFRESH_INTERVAL * TicksPerSecond + 1,
      (CACHE_REFRESH_INTERVAL + 1) * TicksPerSecond,
      TicksPerDay + 10 * TicksPerSecond }
Times == { StartTime + o : o \in ClockOffsets }

----------------------------------------------------------------------------
(* Text *)

IsSpace(c) == c = " "

\* str.lower on one character
LowerChar(c) ==
    CASE c = "A" -> "a"
      [] c = "B" -> "b"
      [] c = "C" -> "c"
      [] OTHER -> c

\* str.lower
Lower(s) == [i \in 1..Len(s) |-> LowerChar(s[i])]

\* str.split(): the maximal runs of non-whitespace, in order
RECURSIVE SplitFrom(_, _, _)
SplitFrom(s, i, cur) ==
    IF i > Len(s)
    THEN IF cur = <<>> THEN <<>> ELSE <<cur>>
    ELSE IF IsSpace(s[i])
         THEN IF cur = <<>>
              THEN SplitFrom(s, i + 1, <<>>)
              ELSE <<cur>> \o SplitFrom(s, i + 1, <<>>)
         ELSE SplitFrom(s, i + 1, Append(cur, s[i]))

Split(s) == SplitFrom(s, 1, <<>>)

\* `term in title`: substring test
Contains(term, title) ==
    \E k \in 0..(Len(title) - Len(term)) :
        SubSeq(title, k + 1, k + Len(term)) = term

\* str.startswith('/')
StartsWithSlash(s) == Len(s) >= 1 /\ s[1] = "/"

\* variant: any non-empty text is searched
LongEnough_NonEmpty(s) == Len(s) >= 1

\* len(text) >= 2  (bot.py:601);  not (not query or len(query) < 2)  (bot.py:770)
LongEnough(s) == Len(s) >= MinQueryLen

----------------------------------------------------------------------------
(* Catalog cache *)

\* variant: media_type taken over as stored
CacheEntry_NoDefaultKind(row) ==
    [ title      |-> row.title,
      id         |-> row.message_id,
      category   |-> row.category,
      file_id    |-> row.file_id,
      media_type |-> row.media_type ]

\* One dict of the list comprehension in refresh_movie_cache.
CacheEntry(row) ==
    [ title      |-> row.title,
      id         |-> row.message_id,
      category   |-> row.category,
      file_id    |-> row.file_id,
      media_type |-> IF Falsy(row.media_type) THEN "document" ELSE row.media_type ]

\* variant: the cache is emptied before the read, so a failed read leaves it empty
RefreshMovieCache_ClearsOnFailure(read_ok, rows, t, cache, refreshed) ==
    IF read_ok
    THEN [ movie_cache        |-> [i \in 1..Len(rows) |-> CacheEntry(rows[i])],
           last_cache_refresh |-> t,
           ret                |-> True ]
    ELSE [ movie_cache        |-> <<>>,
           last_cache_refresh |-> refreshed,
           ret                |-> False ]

\* variant: the entries are replaced but the time of the refresh is not
RefreshMovieCache_TornWrite(read_ok, rows, t, cache, refreshed) ==
    IF read_ok
    THEN [ movie_cache        |-> [i \in 1..Len(rows) |-> CacheEntry(rows[i])],
           last_cache_refresh |-> refreshed,
           ret                |-> True ]
    ELSE [ movie_cache        |-> cache,
           last_cache_refresh |-> refreshed,
           ret                |-> False ]

\* variant: the rows read are added to the entries already held
RefreshMovieCache_KeepsOldEntries(read_ok, rows, t, cache, refreshed) ==
    IF read_ok
    THEN [ movie_cache        |-> cache \o [i \in 1..Len(rows) |-> CacheEntry(rows[i])],
           last_cache_refresh |-> t,
           ret                |-> True ]
    ELSE [ movie_cache        |-> cache,
           last_cache_refresh |-> refreshed,
           ret                |-> False ]

\* refresh_movie_cache: read_ok is whether connect / execute / fetchall went
\* through without sqlite3.Error.  Gives the new globals and the return value.
RefreshMovieCache(read_ok, rows, t, cache, refreshed) ==
    IF read_ok
    THEN [ movie_cache        |-> [i \in 1..Len(rows) |-> CacheEntry(rows[i])],
           last_cache_refresh |-> t,
           ret                |-> True ]
    ELSE [ movie_cache        |-> cache,
           last_cache_refresh |-> refreshed,
           ret                |-> False ]

\* variant: the read paths use the snapshot as it is
RefreshIfNeeded_NeverRefreshes(read_ok, rows, t, cache, refreshed) ==
    [ movie_cache |-> cache, last_cache_refresh |-> refreshed, ret |-> "none" ]

\* "Refresh cache if needed" of the read paths: the check, then the refresh.
RefreshIfNeeded(read_ok, rows, t, cache, refreshed) ==
    IF IsStale(t, refreshed)
    THEN RefreshMovieCache(read_ok, rows, t, cache, refreshed)
    ELSE [ movie_cache |-> cache, last_cache_refresh |-> refreshed, ret |-> "none" ]

----------------------------------------------------------------------------
(* Search *)

\* variant: all(...) in place of any(...)
MatchesAny_AllTerms(terms, title_lower) ==
    \A k \in 1..Len(terms) : Contains(terms[k], title_lower)

\* any(term in title_lower for term in search_terms)
MatchesAny(terms, title_lower) ==
    \E k \in 1..Len(terms) : Contains(terms[k], title_lower)

\* the loop `for movie in movie_cache: ... results.append(movie)`
RECURSIVE SearchLoop(_, _, _)
SearchLoop(cache, terms, i) ==
    IF i > Len(cache)
    THEN <<>>
    ELSE IF MatchesAny(terms, Lower(cache[i].title))
         THEN <<cache[i]>> \o SearchLoop(cache, terms, i + 1)
         ELSE SearchLoop(cache, terms, i + 1)

SearchCache(cache, query) == SearchLoop(cache, Split(Lower(query)), 1)

----------------------------------------------------------------------------
(* Chat transport.  An awaited bot call either returns or raises one of     *)
(* the telegram.error exceptions.                                           *)

Ok == "ok"
Pending == "pending"

ErrForbidden       == "Forbidden: bot can't initiate conversation with a user"
ErrMessageNotFound == "BadRequest: Message to forward not found"
ErrWrongFile       == "BadRequest: Wrong file identifier"
ErrRetryAfter      == "RetryAfter: Flood control exceeded"
Errors == {ErrForbidden, ErrMessageNotFound, ErrWrongFile, ErrRetryAfter}

\* isinstance(e, BadRequest), isinstance(e, Forbidden)
IsBadRequest(e) == e \in {ErrMessageNotFound, ErrWrongFile}
IsForbidden(e) == e = ErrForbidden

\* what each kind of call is let to raise
DirectErrors  == {ErrWrongFile, ErrForbidden, ErrRetryAfter}
ForwardErrors == {ErrForbidden, ErrMessageNotFound, ErrRetryAfter}
NoticeErrors  == {ErrRetryAfter}

\* variant: only BadRequest and Forbidden are caught around the file_id send
DirectSendCaught_OnlyNoChat(e) == IsBadRequest(e) \/ IsForbidden(e)

\* `except Exception` around the file_id send (bot.py:331)
DirectSendCaught(e) == e \in Errors

\* `except (BadRequest, Forbidden)` around forward_message (bot.py:343)
ForwardCaughtAsNoChat(e) == IsBadRequest(e) \/ IsForbidden(e)

\* Failed transport calls of the request in flight; at most MaxFaults calls
\* of one request fail.
MaxFaults == 2

CallFaults(c) ==
    Cardinality({f \in {"direct", "forward", "prompt", "generic"} : c[f] \in Errors})

RECURSIVE SumFaults(_, _)
SumFaults(cs, i) ==
    IF i > Len(cs) THEN 0 ELSE CallFaults(cs[i]) + SumFaults(cs, i + 1)

Faults ==
    SumFaults(calls, 1) + Cardinality({i \in 1..Len(replies) : replies[i].result \in Errors})

Outcomes(errors) == {Ok} \cup (IF Faults < MaxFaults THEN errors ELSE {})

----------------------------------------------------------------------------
(* send_movie_to_user *)

\* next((m for m in movie_cache if m['id'] == movie_id), None): the empty
\* sequence for None, else the one entry found
RECURSIVE FindFrom(_, _, _)
FindFrom(cache, movie_id, i) ==
    IF i > Len(cache) THEN <<>>
    ELSE IF cache[i].id = movie_id THEN <<cache[i]>>
    ELSE FindFrom(cache, movie_id, i + 1)

FindMovie(cache, movie_id) == FindFrom(cache, movie_id, 1)

\* variant: an id the cache does not hold gets the "failed to send" notice
StartSend_NotFoundNotifies(cache, user_id, movie_id, chat_id) ==
    LET found == FindMovie(cache, movie_id)
        base == [ id |-> movie_id, user_id |-> user_id, chat_id |-> chat_id,
                  found |-> found # <<>>,
                  file_id |-> IF found = <<>> THEN None ELSE found[1].file_id,
                  method |-> "none", direct |-> "none",
                  forward |-> "none", forward_args |-> <<>>,
                  prompt |-> "none", generic |-> "none", ret |-> "running" ]
    IN  IF found = <<>>
        THEN [base EXCEPT !.generic = Pending]
        ELSE IF ~Falsy(found[1].file_id)
        THEN [base EXCEPT !.direct = Pending,
                          !.method = IF found[1].media_type = "video"
                                     THEN "send_video" ELSE "send_document"]
        ELSE [base EXCEPT !.forward = Pending,
                          !.forward_args = <<user_id, STORAGE_CHANNEL_ID, movie_id>>]

\* send_movie_to_user up to its first await.  The record of the call holds
\* the transport calls it made, with their results, and what it returned.
StartSend(cache, user_id, movie_id, chat_id) ==
    LET found == FindMovie(cache, movie_id)
        base == [ id |-> movie_id, user_id |-> user_id, chat_id |-> chat_id,
                  found |-> found # <<>>,
                  file_id |-> IF found = <<>> THEN None ELSE found[1].file_id,
                  method |-> "none", direct |-> "none",
                  forward |-> "none", forward_args |-> <<>>,
                  prompt |-> "none", generic |-> "none", ret |-> "running" ]
    IN  IF found = <<>>
        THEN [base EXCEPT !.ret = False]
        ELSE IF ~Falsy(found[1].file_id)
        THEN [base EXCEPT !.direct = Pending,
                          !.method = IF found[1].media_type = "video"
                                     THEN "send_video" ELSE "send_document"]
        ELSE [base EXCEPT !.forward = Pending,
                          !.forward_args = <<user_id, STORAGE_CHANNEL_ID, movie_id>>]

\* the await a running call is suspended at
AwaitOf(c) ==
    CASE c.ret # "running"   -> "returned"
      [] c.generic = Pending -> "generic"
      [] c.prompt = Pending  -> "prompt"
      [] c.forward = Pending -> "forward"
      [] OTHER               -> "direct"

\* variant: the forward follows the file_id send whatever it gave
AfterDirect_AlwaysForwards(c, outcome) ==
    [c EXCEPT !.direct = outcome, !.forward = Pending,
              !.forward_args = <<c.user_id, STORAGE_CHANNEL_ID, c.id>>]

\* the file_id send returned or raised (bot.py:316-332)
AfterDirect(c, outcome) ==
    IF outcome = Ok
    THEN [c EXCEPT !.direct = Ok, !.ret = True]
    ELSE IF DirectSendCaught(outcome)
    THEN [c EXCEPT !.direct = outcome, !.forward = Pending,
                   !.forward_args = <<c.user_id, STORAGE_CHANNEL_ID, c.id>>]
    ELSE [c EXCEPT !.direct = outcome, !.generic = Pending]

\* forward_message returned or raised (bot.py:335-359)
AfterForward(c, outcome) ==
    IF outcome = Ok
    THEN [c EXCEPT !.forward = Ok, !.ret = True]
    ELSE IF ForwardCaughtAsNoChat(outcome)
    THEN IF c.chat_id # None
         THEN [c EXCEPT !.forward = outcome, !.prompt = Pending]
         ELSE [c EXCEPT !.forward = outcome, !.ret = False]
    ELSE IF c.chat_id # None
         THEN [c EXCEPT !.forward = outcome, !.generic = Pending]
         ELSE [c EXCEPT !.forward = outcome, !.ret = False]

\* send_message of the "start a private chat" text returned or raised: a raise
\* inside the inner handler is caught by the outer `except Exception`.
AfterPrompt(c, outcome) ==
    IF outcome = Ok
    THEN [c EXCEPT !.prompt = Ok, !.ret = False]
    ELSE [c EXCEPT !.prompt = outcome, !.generic = Pending]

\* send_message of the "failed to send" text returned or raised: a raise
\* inside the outer handler leaves send_movie_to_user.
AfterGeneric(c, outcome) ==
    IF outcome = Ok
    THEN [c EXCEPT !.generic = Ok, !.ret = False]
    ELSE [c EXCEPT !.generic = outcome, !.ret = "raised"]

ErrorsAt(c) ==
    CASE AwaitOf(c) = "direct"  -> DirectErrors
      [] AwaitOf(c) = "forward" -> ForwardErrors
      [] OTHER                  -> NoticeErrors

AfterAwait(c, outcome) ==
    CASE AwaitOf(c) = "direct"  -> AfterDirect(c, outcome)
      [] AwaitOf(c) = "forward" -> AfterForward(c, outcome)
      [] AwaitOf(c) = "prompt"  -> AfterPrompt(c, outcome)
      [] AwaitOf(c) = "generic" -> AfterGeneric(c, outcome)

----------------------------------------------------------------------------
(* The handler in flight *)

RequestChat == "chat"      \* update.effective_chat.id

Reply(call, what, arg) == [call |-> call, what |-> what, arg |-> arg, result |-> Pending]

\* the last reply, completed with what its await gave
Completed(rs, outcome) == [rs EXCEPT ![Len(rs)].result = outcome]

\* `for movie in results[:10]` from position i on, up to the next await: a
\* call that returns without awaiting (movie not in the cache) goes on to the
\* next entry; after the last entry the handler returns or sends the summary.
RECURSIVE RunLoop(_, _, _, _, _, _)
RunLoop(cache, res, i, sent, cs, user_id) ==
    IF i > Min(Len(res), BatchCap)
    THEN [ pc |-> IF sent = 0 THEN "last" ELSE "idle",
           idx |-> i, sent_count |-> sent, calls |-> cs,
           summary |-> sent = 0 ]
    ELSE LET c == StartSend(cache, user_id, res[i].id, RequestChat)
         IN  IF c.ret = False
             THEN RunLoop(cache, res, i + 1, sent, Append(cs, c), user_id)
             ELSE [ pc |-> "send", idx |-> i, sent_count |-> sent,
                    calls |-> Append(cs, c), summary |-> FALSE ]

WithSummary(rs, loop) ==
    IF loop.summary THEN Append(rs, Reply("reply_text", "could_not_send", <<>>)) ELSE rs

\* what a read path notes of its "refresh cache if needed"
Check(r) ==
    << [ now |-> now, refreshed |-> last_cache_refresh,
         stale |-> IsStale(now, last_cache_refresh), ret |-> r.ret ] >>

NewRequest(k, u, t, d) ==
    /\ pc = "idle"
    /\ kind' = k /\ user' = u /\ text' = t /\ data' = d
    /\ raised' = FALSE

\* handle_message up to its first await (bot.py:592-607, 719-742)
HandleMessage(u, t) ==
    /\ NewRequest("message", u, t, "none")
    /\ UNCHANGED admin
    /\ idx' = 0 /\ sent_count' = 0 /\ calls' = <<>>
    /\ UNCHANGED <<store, now>>
    /\ \/ /\ StartsWithSlash(t)
          /\ pc' = "idle" /\ results' = <<>> /\ replies' = <<>>
          /\ checked' = <<>> /\ refresh_ret' = "none"
          /\ UNCHANGED <<movie_cache, last_cache_refresh>>
       \/ /\ ~StartsWithSlash(t) /\ ~LongEnough(t)
          /\ pc' = "last" /\ results' = <<>>
          /\ replies' = <<Reply("reply_text", "too_short", <<>>)>>
          /\ checked' = <<>> /\ refresh_ret' = "none"
          /\ UNCHANGED <<movie_cache, last_cache_refresh>>
       \/ /\ ~StartsWithSlash(t) /\ LongEnough(t)
          /\ \E read_ok \in BOOLEAN :
               LET r == RefreshIfNeeded(read_ok, store, now, movie_cache, last_cache_refresh)
                   res == SearchCache(r.movie_cache, t)
               IN  /\ movie_cache' = r.movie_cache
                   /\ last_cache_refresh' = r.last_cache_refresh
                   /\ refresh_ret' = r.ret
                   /\ checked' = Check(r)
                   /\ results' = res
                   /\ IF res = <<>>
                      THEN /\ pc' = "last"
                           /\ replies' = <<Reply("reply_text", "no_movies_found", <<>>)>>
                      ELSE /\ pc' = "found"
                           /\ replies' = <<Reply("reply_text", "found", <<Len(res)>>)>>

\* the "Found n movies" reply returned or raised; then the loop (bot.py:742-764)
FoundDone(outcome) ==
    /\ pc = "found"
    /\ UNCHANGED admin
    /\ refresh_ret' = "none"
    /\ UNCHANGED <<shared, kind, text, data, user, results, checked>>
    /\ IF outcome # Ok
       THEN /\ pc' = "idle" /\ raised' = TRUE
            /\ replies' = Completed(replies, outcome)
            /\ UNCHANGED <<idx, sent_count, calls>>
       ELSE LET loop == RunLoop(movie_cache, results, 1, 0, <<>>, user)
            IN  /\ pc' = loop.pc /\ idx' = loop.idx /\ sent_count' = loop.sent_count
                /\ calls' = loop.calls
                /\ replies' = WithSummary(Completed(replies, outcome), loop)
                /\ raised' = FALSE

\* an await inside send_movie_to_user returned or raised; then the rest of
\* the call and of the loop up to the next await (bot.py:304-359, 745-764)
SendDone(outcome) ==
    /\ pc = "send"
    /\ UNCHANGED admin
    /\ outcome \in Outcomes(ErrorsAt(calls[Len(calls)]))
    /\ refresh_ret' = "none"
    /\ UNCHANGED <<shared, kind, text, data, user, results, checked>>
    /\ LET c == AfterAwait(calls[Len(calls)], outcome)
           cs == [calls EXCEPT ![Len(calls)] = c]
       IN  CASE c.ret = "running" ->
                  /\ calls' = cs
                  /\ UNCHANGED <<pc, idx, sent_count, replies, raised>>
             [] c.ret = "raised" ->
                  /\ calls' = cs /\ pc' = "idle" /\ raised' = TRUE
                  /\ UNCHANGED <<idx, sent_count, replies>>
             [] OTHER ->
                  LET sent == IF c.ret = True THEN sent_count + 1 ELSE sent_count
                      loop == RunLoop(movie_cache, results, idx + 1, sent, cs, user)
                  IN  /\ pc' = loop.pc /\ idx' = loop.idx
                      /\ sent_count' = loop.sent_count /\ calls' = loop.calls
                      /\ replies' = WithSummary(replies, loop)
                      /\ raised' = FALSE

\* the last await of a handler returned or raised
LastDone(outcome) ==
    /\ pc = "last"
    /\ UNCHANGED admin
    /\ pc' = "idle"
    /\ replies' = Completed(replies, outcome)
    /\ raised' = (outcome # Ok)
    /\ refresh_ret' = "none"
    /\ UNCHANGED <<shared, kind, text, data, user, results, idx, sent_count, calls, checked>>

\* One InlineQueryResultCachedVideo / InlineQueryResultCachedDocument
InlineResult(movie) ==
    [ id |-> movie.id,
      type |-> IF movie.media_type = "video" THEN "video" ELSE "document",
      file_id |-> movie.file_id ]

\* inline_query_handler up to its await (bot.py:766-806)
InlineQuery(u, q) ==
    /\ NewRequest("inline", u, q, "none")
    /\ UNCHANGED admin
    /\ idx' = 0 /\ sent_count' = 0 /\ calls' = <<>>
    /\ UNCHANGED <<store, now>>
    /\ \/ /\ ~LongEnough(q)
          /\ pc' = "idle" /\ results' = <<>> /\ replies' = <<>>
          /\ checked' = <<>> /\ refresh_ret' = "none"
          /\ UNCHANGED <<movie_cache, last_cache_refresh>>
       \/ /\ LongEnough(q)
          /\ \E read_ok \in BOOLEAN :
               LET r == RefreshIfNeeded(read_ok, store, now, movie_cache, last_cache_refresh)
                   res == SearchCache(r.movie_cache, q)
                   shown == SubSeq(res, 1, Min(Len(res), InlineCap))
               IN  /\ movie_cache' = r.movie_cache
                   /\ last_cache_refresh' = r.last_cache_refresh
                   /\ refresh_ret' = r.ret
                   /\ checked' = Check(r)
                   /\ results' = res
                   /\ pc' = "last"
                   /\ replies' = << Reply("answer_inline_query", "results",
                                          [i \in 1..Len(shown) |-> InlineResult(shown[i])]) >>

\* button_handler up to `await query.answer()` (bot.py:609-612)
Button(u, d) ==
    /\ NewRequest("button", u, <<>>, d)
    /\ UNCHANGED admin
    /\ pc' = "cb"
    /\ replies' = <<Reply("answer_callback_query", "answer", <<>>)>>
    /\ results' = <<>> /\ idx' = 0 /\ sent_count' = 0 /\ calls' = <<>>
    /\ checked' = <<>> /\ refresh_ret' = "none"
    /\ UNCHANGED shared

\* data.startswith('cat_') and data[4:]
IsCategoryData(d) == d \in {"cat_Action", "cat_Drama"}
CategoryOfData(d) == IF d = "cat_Action" THEN "Action" ELSE "Drama"

\* str.lower on a category name
LowerCategory(c) ==
    CASE c = "Action" -> "action"
      [] c = "Drama"  -> "drama"
      [] OTHER        -> c

\* [m for m in movie_cache if m['category'].lower() == category.lower()]
CategoryMovies(cache, category) ==
    SelectSeq(cache, LAMBDA m : LowerCategory(m.category) = LowerCategory(category))

\* last_cache_refresh.strftime('%Y-%m-%d %H:%M'): the minute it falls in
FormatMinute(t) == t \div (60 * TicksPerSecond)

\* the edit_message_text of list_all_movies (bot.py:699-717)
ListAllText(cache, refreshed) ==
    IF cache = <<>>
    THEN Reply("edit_message_text", "no_movies_available", <<>>)
    ELSE Reply("edit_message_text", "library_stats",
               << Len(cache),
                  Cardinality({cache[i].category : i \in 1..Len(cache)}),
                  FormatMinute(refreshed) >>)

\* the edit_message_text of show_category_movies (bot.py:673-691)
CategoryText(cache, category) ==
    LET ms == CategoryMovies(cache, category)
        listed == SubSeq(ms, 1, Min(Len(ms), CategoryListCap))
    IN  IF ms = <<>>
        THEN Reply("edit_message_text", "no_movies_in_category", <<>>)
        ELSE Reply("edit_message_text", "category_movies",
                   << Len(ms), [i \in 1..Len(listed) |-> listed[i].title] >>)

\* variant: the refresh button works for every user
MayRefresh_AnyUser(d, u) == d = "refresh_cache"

\* `data == 'refresh_cache' and user_id == ADMIN_USER_ID` (bot.py:643)
MayRefresh(d, u) == d = "refresh_cache" /\ u = ADMIN_USER_ID

\* query.answer() returned or raised; then the branch of button_handler for
\* the callback data, up to its edit_message_text (bot.py:614-717)
CallbackAnswered(outcome) ==
    /\ pc = "cb"
    /\ UNCHANGED admin
    /\ UNCHANGED <<store, now, kind, text, data, user, results, idx, sent_count, calls>>
    /\ \/ /\ outcome # Ok
          /\ pc' = "idle" /\ raised' = TRUE
          /\ replies' = Completed(replies, outcome)
          /\ refresh_ret' = "none"
          /\ UNCHANGED <<movie_cache, last_cache_refresh, checked>>
       \/ /\ outcome = Ok
          /\ IsCategoryData(data)
          /\ \E read_ok \in BOOLEAN :
               LET r == RefreshIfNeeded(read_ok, store, now, movie_cache, last_cache_refresh)
               IN  /\ movie_cache' = r.movie_cache
                   /\ last_cache_refresh' = r.last_cache_refresh
                   /\ refresh_ret' = r.ret
                   /\ checked' = Check(r)
                   /\ replies' = Append(Completed(replies, outcome),
                                        CategoryText(r.movie_cache, CategoryOfData(data)))
          /\ pc' = "last" /\ raised' = FALSE
       \/ /\ outcome = Ok
          /\ data = "list_all"
          /\ \E read_ok \in BOOLEAN :
               LET r == RefreshIfNeeded(read_ok, store, now, movie_cache, last_cache_refresh)
               IN  /\ movie_cache' = r.movie_cache
                   /\ last_cache_refresh' = r.last_cache_refresh
                   /\ refresh_ret' = r.ret
                   /\ checked' = Check(r)
                   /\ replies' = Append(Completed(replies, outcome),
                                        ListAllText(r.movie_cache, r.last_cache_refresh))
          /\ pc' = "last" /\ raised' = FALSE
       \/ /\ outcome = Ok
          /\ MayRefresh(data, user)
          /\ \E read_ok \in BOOLEAN :
               LET r == RefreshMovieCache(read_ok, store, now, movie_cache, last_cache_refresh)
               IN  /\ movie_cache' = r.movie_cache
                   /\ last_cache_refresh' = r.last_cache_refresh
                   /\ refresh_ret' = r.ret
          /\ replies' = Append(Completed(replies, outcome),
                               Reply("edit_message_text", "cache_refreshed_successfully", <<>>))
          /\ pc' = "last" /\ raised' = FALSE
          /\ UNCHANGED checked
       \/ /\ outcome = Ok
          /\ data = "main_menu"
          /\ replies' = Append(Completed(replies, outcome),
                               Reply("edit_message_text", "main_menu", <<>>))
          /\ pc' = "last" /\ raised' = FALSE
          /\ refresh_ret' = "none"
          /\ UNCHANGED <<movie_cache, last_cache_refresh, checked>>
       \/ /\ outcome = Ok
          /\ ~IsCategoryData(data) /\ data # "list_all" /\ data # "main_menu"
          /\ ~MayRefresh(data, user)
          /\ replies' = Append(Completed(replies, outcome),
                               Reply("edit_message_text", "unknown_command", <<>>))
          /\ pc' = "last" /\ raised' = FALSE
          /\ refresh_ret' = "none"
          /\ UNCHANGED <<movie_cache, last_cache_refresh, checked>>

----------------------------------------------------------------------------
(* What runs beside the handler in flight *)

\* The record of a request (kind .. checked) is kept while it is in flight
\* and in the state its handler ends in; what happens after that starts from
\* a clean record.
Beside ==
    IF pc = "idle"
    THEN /\ kind' = "none" /\ text' = <<>> /\ data' = "none" /\ user' = "none"
         /\ results' = <<>> /\ idx' = 0 /\ sent_count' = 0
         /\ calls' = <<>> /\ replies' = <<>> /\ raised' = FALSE
         /\ checked' = <<>> /\ pc' = "idle"
    ELSE UNCHANGED <<request, checked>>

\* the clock moves on
Tick(t) ==
    /\ t > now
    /\ UNCHANGED admin
    /\ now' = t
    /\ refresh_ret' = "none"
    /\ Beside
    /\ UNCHANGED <<store, movie_cache, last_cache_refresh>>

\* default_categories of init_db, inserted when the database is set up
DefaultCategories ==
    { "Anime", "Animation", "Action", "Horror", "Comedy", "Drama", "Sci-Fi",
      "Fantasy", "Thriller", "Documentary", "Other" }

\* where a store function's sqlite3 calls may raise sqlite3.Error
WriteFailures == {"none", "first_execute", "second_execute"}

MaxRows == 2

\* add_movie_to_db (bot.py:361-383): the row is inserted and committed, then
\* its category is inserted if new and committed.  sqlite3.Error at the first
\* INSERT leaves the database as it was; at the second the row stays.
AddMovieToDb(row) ==
    /\ Len(store) < MaxRows
    /\ \E failure \in WriteFailures :
         /\ store' = IF failure = "first_execute" THEN store ELSE Append(store, row)
         /\ categories' = IF failure = "none"
                          THEN categories \cup {row.category} ELSE categories
    /\ refresh_ret' = "none"
    /\ duplicates' = <<>>
    /\ Beside
    /\ UNCHANGED <<movie_cache, last_cache_refresh, now>>

\* DELETE FROM movies WHERE message_id = ?
DeleteRows(rows, movie_id) == SelectSeq(rows, LAMBDA r : r.message_id # movie_id)

\* variant: the deleted entry is taken out of the snapshot as well
DeleteMovieFromDb_PatchesCache(movie_id) ==
    /\ store' = DeleteRows(store, movie_id)
    /\ store' # store
    /\ movie_cache' = SelectSeq(movie_cache, LAMBDA m : m.id # movie_id)
    /\ refresh_ret' = "none"
    /\ duplicates' = <<>>
    /\ UNCHANGED categories
    /\ Beside
    /\ UNCHANGED <<last_cache_refresh, now>>

\* delete_movie_from_db (bot.py:427-441)
DeleteMovieFromDb(movie_id) ==
    /\ store' = DeleteRows(store, movie_id)
    /\ store' # store
    /\ refresh_ret' = "none"
    /\ duplicates' = <<>>
    /\ UNCHANGED categories
    /\ Beside
    /\ UNCHANGED <<movie_cache, last_cache_refresh, now>>

\* UPDATE movies SET ... WHERE message_id = ?, for the field named; any other
\* field name executes nothing
UpdateRows(rows, movie_id, field, value) ==
    [ i \in 1..Len(rows) |->
        IF rows[i].message_id # movie_id THEN rows[i]
        ELSE CASE field = "title"    -> [rows[i] EXCEPT !.title = value]
               [] field = "category" -> [rows[i] EXCEPT !.category = value]
               [] field = "file"     -> [rows[i] EXCEPT !.file_id = value.file_id,
                                                        !.media_type = value.media_type]
               [] OTHER              -> rows[i] ]

\* update_movie_in_db (bot.py:403-425): sqlite3.Error before the commit leaves
\* the database as it was
UpdateMovieInDb(movie_id, field, value) ==
    /\ \E failure \in {"none", "first_execute"} :
         store' = IF failure = "none"
                  THEN UpdateRows(store, movie_id, field, value) ELSE store
    /\ store' # store
    /\ refresh_ret' = "none"
    /\ duplicates' = <<>>
    /\ Beside
    /\ UNCHANGED <<movie_cache, last_cache_refresh, now, categories>>

\* variant: titles are grouped letter case aside
TitleGroup_IgnoringCase(rows, title) ==
    {i \in 1..Len(rows) : Lower(rows[i].title) = Lower(title)}

\* GROUP BY title: the rows of one group
TitleGroup(rows, title) == {i \in 1..Len(rows) : rows[i].title = title}

\* SELECT title, COUNT(*) as count FROM movies GROUP BY title HAVING count > 1
DuplicateGroups(rows) ==
    { <<rows[i].title, Cardinality(TitleGroup(rows, rows[i].title))>> :
        i \in {j \in 1..Len(rows) : Cardinality(TitleGroup(rows, rows[j].title)) > 1} }

\* find_duplicate_movies (bot.py:459-474): the fetched groups, or [] after
\* sqlite3.Error.  The tuples of the returned list are kept as a set.
FindDuplicateMovies(read_ok) ==
    /\ pc = "idle"
    /\ duplicates' = << [ read_ok |-> read_ok,
                          ret |-> IF read_ok THEN DuplicateGroups(store) ELSE {} ] >>
    /\ refresh_ret' = "none"
    /\ Beside
    /\ UNCHANGED <<shared, categories>>

\* variant: the refresh rewrites the table it read from
ConcurrentRefresh_EmptiesStore(read_ok) ==
    /\ pc # "idle"
    /\ store' = <<>>
    /\ LET r == RefreshMovieCache(read_ok, store, now, movie_cache, last_cache_refresh)
       IN  /\ movie_cache' = r.movie_cache
           /\ last_cache_refresh' = r.last_cache_refresh
           /\ refresh_ret' = r.ret
    /\ UNCHANGED <<now, request, checked, admin>>

\* refresh_movie_cache run by another conversation while the handler in
\* flight is suspended
ConcurrentRefresh(read_ok) ==
    /\ pc # "idle"
    /\ UNCHANGED admin
    /\ LET r == RefreshMovieCache(read_ok, store, now, movie_cache, last_cache_refresh)
       IN  /\ movie_cache' = r.movie_cache
           /\ last_cache_refresh' = r.last_cache_refresh
           /\ refresh_ret' = r.ret
    /\ UNCHANGED <<store, now, request, checked>>

----------------------------------------------------------------------------
(* Inputs *)

TitleAb == <<"A", "b">>
TitleLowerAb == <<"a", "b">>
TitleC == <<"C">>

RowVideo ==
    [ title |-> TitleAb, message_id |-> 1, category |-> "Action",
      file_id |-> "file-1", media_type |-> "video" ]
RowLegacy ==
    [ title |-> TitleLowerAb, message_id |-> 2, category |-> "drama",
      file_id |-> None, media_type |-> None ]
RowDocument ==
    [ title |-> TitleC, message_id |-> 3, category |-> "Action",
      file_id |-> "file-3", media_type |-> "document" ]

Rows == {RowVideo, RowLegacy, RowDocument}
MessageIds == {r.message_id : r \in Rows}

\* another upload registered under the message id of RowDocument
RowReupload ==
    [ title |-> TitleLowerAb, message_id |-> 3, category |-> "Action",
      file_id |-> "file-4", media_type |-> "video" ]

\* rows the upload flow adds: add_movie_to_db stores a media_type
Uploads == {RowVideo, RowDocument, RowReupload}

\* what the database file holds when the process starts
InitStores == { <<>>, <<RowVideo, RowLegacy>>, <<RowLegacy, RowDocument>> }

Messages == { <<"B", " ", "c">>, <<"B">>, <<"/", "a">> }
InlineQueries == { <<"a", "B">>, <<"B">>, <<>> }
CallbackData == { "list_all", "refresh_cache", "cat_Action", "cat_Drama", "main_menu" }

----------------------------------------------------------------------------
(* The program *)

\* Module level of bot.py up to the initial cache load (bot.py:170-202).
\* Table categories holds the default names and those the rows already in
\* the database brought along when they were added.
Init ==
    /\ store \in InitStores
    /\ now = StartTime
    /\ \E read_ok \in BOOLEAN :
         LET r == RefreshMovieCache(read_ok, store, now, <<>>, DatetimeMin)
         IN  /\ movie_cache = r.movie_cache
             /\ last_cache_refresh = r.last_cache_refresh
             /\ refresh_ret = r.ret
    /\ pc = "idle" /\ kind = "none" /\ text = <<>> /\ data = "none" /\ user = "none"
    /\ results = <<>> /\ idx = 0 /\ sent_count = 0
    /\ calls = <<>> /\ replies = <<>> /\ raised = FALSE
    /\ checked = <<>>
    /\ categories = DefaultCategories \cup {store[i].category : i \in 1..Len(store)}
    /\ duplicates = <<>>

\* Every handler, the clock, deletions and refreshes by other conversations,
\* over the database the process started with.
Next ==
    \/ \E t \in Messages : HandleMessage(OtherUser, t)
    \/ \E q \in InlineQueries : InlineQuery(OtherUser, q)
    \/ \E u \in Users, d \in CallbackData : Button(u, d)
    \/ \E o \in Outcomes(NoticeErrors) : CallbackAnswered(o)
    \/ \E o \in Outcomes(NoticeErrors) : FoundDone(o)
    \/ \E o \in {Ok} \cup Errors : SendDone(o)
    \/ \E o \in Outcomes(NoticeErrors) : LastDone(o)
    \/ \E t \in Times : Tick(t)
    \/ \E id \in MessageIds : DeleteMovieFromDb(id)
    \/ \E ok \in BOOLEAN : ConcurrentRefresh(ok)

Spec == Init /\ [][Next]_vars

\* The catalog cache under uploads and deletions: the admin's refresh
\* button, the library statistics and an inline search, at two instants.
CacheCallbackData == {"refresh_cache", "list_all"}
CacheQueries == { <<"a", "B">> }
CacheTimes == { StartTime, StartTime + (CACHE_REFRESH_INTERVAL + 1) * TicksPerSecond }
CacheUploads == {RowDocument, RowReupload}

NextCache ==
    \/ \E q \in CacheQueries : InlineQuery(OtherUser, q)
    \/ \E d \in CacheCallbackData : Button(ADMIN_USER_ID, d)
    \/ \E o \in Outcomes(NoticeErrors) : CallbackAnswered(o)
    \/ \E o \in Outcomes(NoticeErrors) : LastDone(o)
    \/ \E t \in CacheTimes : Tick(t)
    \/ \E row \in CacheUploads : AddMovieToDb(row)
    \/ \E id \in MessageIds : DeleteMovieFromDb(id)
    \/ \E ok \in BOOLEAN : ConcurrentRefresh(ok)

SpecCache == Init /\ [][NextCache]_vars

----------------------------------------------------------------------------
(* The search alone: every query text up to MaxTextLen characters against   *)
(* every freshly loaded catalog of up to two of the titles below.           *)

MaxTextLen == 3
SearchAlphabet == {"a", "B", " "}
SearchTexts == UNION { [1..n -> SearchAlphabet] : n \in 0..MaxTextLen }

SearchTitles ==
    { <<"A", "b">>, <<"a", "b">>, <<"B", " ", "a">>, <<"b">>, <<"C">>, <<"a", "a", "B">> }

SearchRow(title, id) ==
    [ title |-> title, message_id |-> id, category |-> "Action",
      file_id |-> None, media_type |-> None ]

SearchStores ==
    {<<>>} \cup { <<SearchRow(t, 1)>> : t \in SearchTitles }
           \cup { <<SearchRow(t, 1), SearchRow(u, 2)>> : t \in SearchTitles, u \in SearchTitles }

InitSearch ==
    /\ store \in SearchStores
    /\ now = StartTime
    /\ LET r == RefreshMovieCache(TRUE, store, now, <<>>, DatetimeMin)
       IN  /\ movie_cache = r.movie_cache
           /\ last_cache_refresh = r.last_cache_refresh
           /\ refresh_ret = r.ret
    /\ pc = "idle" /\ kind = "none" /\ text = <<>> /\ data = "none" /\ user = "none"
    /\ results = <<>> /\ idx = 0 /\ sent_count = 0
    /\ calls = <<>> /\ replies = <<>> /\ raised = FALSE
    /\ checked = <<>>
    /\ categories = DefaultCategories \cup {store[i].category : i \in 1..Len(store)}
    /\ duplicates = <<>>

NextSearch ==
    \/ \E t \in SearchTexts \ {<<>>} : HandleMessage(OtherUser, t)
    \/ \E q \in SearchTexts : InlineQuery(OtherUser, q)

SpecSearch == InitSearch /\ [][NextSearch]_vars

----------------------------------------------------------------------------
(* The store functions alone: uploads, edits, deletions and the duplicate   *)
(* report over the database the process started with.                       *)

NewCategory == "Western"
NewFile == [file_id |-> "file-9", media_type |-> "video"]

\* (field, value) arguments of update_movie_in_db
Edits ==
    { <<"title", TitleLowerAb>>, <<"category", NewCategory>>,
      <<"file", NewFile>>, <<"year", "1999">> }

NextStore ==
    \/ \E row \in Uploads : AddMovieToDb(row)
    \/ \E id \in MessageIds, e \in Edits : UpdateMovieInDb(id, e[1], e[2])
    \/ \E id \in MessageIds : DeleteMovieFromDb(id)
    \/ \E ok \in BOOLEAN : FindDuplicateMovies(ok)

SpecStore == Init /\ [][NextStore]_vars

----------------------------------------------------------------------------
(* Properties *)

\* the Found-n reply of a text search went out, so its loop was entered
LoopEntered ==
    /\ kind = "message" /\ replies # <<>>
    /\ replies[1].what = "found" /\ replies[1].result = Ok

\* C1: a refresh_movie_cache whose store read fails returns False, raises
\* nothing, and leaves movie_cache and last_cache_refresh as they were.
C1_FailedRefreshKeepsSnapshot ==
    [][ refresh_ret' = False =>
          /\ movie_cache' = movie_cache
          /\ last_cache_refresh' = last_cache_refresh
          /\ ~raised' ]_vars

\* a read path found the cache stale, its refresh failed, and the entries and
\* the time of an earlier refresh are still there
C1_Witness ==
    /\ refresh_ret = False
    /\ checked # <<>> /\ checked[1].stale /\ checked[1].ret = False
    /\ movie_cache # <<>> /\ last_cache_refresh # DatetimeMin

\* C2: when the file_id send of an entry fails, whatever it raised, the
\* archived message with the entry's id is forwarded from the storage channel
\* to the same user next, before any notice; if that forward succeeds the call
\* returns True and no failure notice is sent.
C2_DirectFailureFallsBack ==
    \A i \in 1..Len(calls) :
        LET c == calls[i]
        IN  c.direct \in Errors =>
              /\ c.forward # "none"
              /\ c.forward_args = <<c.user_id, STORAGE_CHANNEL_ID, c.id>>
              /\ c.forward = Pending => (c.prompt = "none" /\ c.generic = "none")
              /\ c.forward = Ok =>
                   (c.ret = True /\ c.prompt = "none" /\ c.generic = "none")

\* a file_id send was rate limited and the forward that followed delivered
C2_Witness ==
    \E i \in 1..Len(calls) :
        /\ calls[i].direct = ErrRetryAfter
        /\ calls[i].forward = Ok
        /\ calls[i].ret = True

\* C3: once the loop of a search is entered, send_movie_to_user is called for
\* every one of the first 10 results and none of these calls raises, whatever
\* transport calls failed on the way.
C3_EveryEntryAttempted ==
    (LoopEntered /\ pc = "idle") =>
        /\ Len(calls) = Min(Len(results), BatchCap)
        /\ \A i \in 1..Len(calls) : calls[i].id = results[i].id /\ calls[i].ret # "raised"

\* the recipient-unreachable errors: the user has no chat with the bot
RecipientUnreachable(e) == e = ErrForbidden

\* C4: after a failed forward the private-chat prompt is sent exactly when
\* the error says the recipient is unreachable; every other failure gets the
\* generic text and no prompt.
C4_PromptOnlyWhenUnreachable ==
    \A i \in 1..Len(calls) :
        LET c == calls[i]
        IN  c.forward \in Errors =>
              IF RecipientUnreachable(c.forward)
              THEN c.prompt # "none"
              ELSE c.prompt = "none" /\ c.generic # "none"

\* C5: the staleness check of a read path is true exactly when more than
\* CACHE_REFRESH_INTERVAL seconds lie between last_cache_refresh and now.
C5_StaleIffIntervalExceeded ==
    checked # <<>> =>
        LET k == checked[1]
        IN  k.now >= k.refreshed =>
              (k.stale <=> (k.now - k.refreshed > CACHE_REFRESH_INTERVAL * TicksPerSecond))

\* the snapshot holds one entry per row of rows, field by field
MirrorsRows(cache, rows) ==
    /\ Len(cache) = Len(rows)
    /\ \A i \in 1..Len(rows) :
         /\ DOMAIN cache[i] = {"title", "id", "category", "file_id", "media_type"}
         /\ cache[i].title = rows[i].title
         /\ cache[i].id = rows[i].message_id
         /\ cache[i].category = rows[i].category
         /\ cache[i].file_id = rows[i].file_id
         /\ cache[i].media_type =
              (IF rows[i].media_type = None THEN "document" ELSE rows[i].media_type)

\* C6: right after a refresh_movie_cache that returned True, movie_cache
\* holds exactly one entry per row of the store as read (title, id =
\* message_id, category, file_id, media_type or 'document' when unset) and
\* last_cache_refresh is the time of the refresh.
C6_SuccessfulRefreshMirrorsStore ==
    refresh_ret = True =>
        /\ MirrorsRows(movie_cache, store)
        /\ last_cache_refresh = now

\* a refresh later than the initial load read a store that an upload had
\* changed, with a row without media_type
C6_Witness ==
    /\ refresh_ret = True
    /\ last_cache_refresh # StartTime
    /\ store \notin InitStores
    /\ Len(store) >= 2
    /\ store[1] = RowLegacy /\ store[2] = RowReupload
    /\ movie_cache[1].media_type = "document"

\* the library statistics a list_all step has just put together
StatsJustRead ==
    /\ pc = "cb" /\ pc' = "last" /\ data = "list_all"
    /\ replies'[Len(replies')].what = "library_stats"

\* C7: movie_cache and last_cache_refresh never change one without the
\* other: a step that changes either is a completed refresh that wrote both
\* from one read of the store, and the entry count and the time a handler
\* reports are those of one and the same state.
C7_SnapshotNeverTorn ==
    [][ /\ (movie_cache' # movie_cache \/ last_cache_refresh' # last_cache_refresh) =>
             /\ refresh_ret' = True
             /\ MirrorsRows(movie_cache', store')
             /\ last_cache_refresh' = now'
        /\ StatsJustRead =>
             /\ replies'[Len(replies')].arg[1] = Len(movie_cache')
             /\ replies'[Len(replies')].arg[3] = FormatMinute(last_cache_refresh') ]_vars

\* while list_all_movies is suspended at its edit_message_text another
\* conversation has replaced the snapshot it reported on
C7_Witness ==
    /\ pc = "last" /\ data = "list_all"
    /\ refresh_ret = True
    /\ replies[Len(replies)].what = "library_stats"
    /\ replies[Len(replies)].arg[1] # Len(movie_cache)

\* q[a..b] is one of the whitespace-separated terms of q
IsTermOf(q, a, b) ==
    /\ a <= b
    /\ \A j \in a..b : q[j] # " "
    /\ (a = 1 \/ q[a - 1] = " ")
    /\ (b = Len(q) \/ q[b + 1] = " ")

\* some term of q occurs in title, letter case aside
TitleHasATerm(title, q) ==
    \E a \in 1..Len(q), b \in 1..Len(q) :
        /\ IsTermOf(q, a, b)
        /\ \E k \in 1..Len(title) :
             /\ k + (b - a) <= Len(title)
             /\ \A j \in 0..(b - a) : LowerChar(title[k + j]) = LowerChar(q[a + j])

Selected(snapshot, q) == {i \in 1..Len(snapshot) : TitleHasATerm(snapshot[i].title, q)}

\* C8: the result of a search is exactly the snapshot entries whose title
\* contains, letter case aside, at least one whitespace-separated term of the
\* query, in snapshot order.
C8_SearchSelectsMatchesInOrder ==
    (kind \in {"message", "inline"} /\ checked # <<>>) =>
        LET sel == Selected(movie_cache, text)
        IN  /\ Len(results) = Cardinality(sel)
            /\ \A i \in sel : results[Cardinality({j \in sel : j <= i})] = movie_cache[i]

\* a query of two terms selected the second of two entries only, in upper case
C8_Witness ==
    /\ kind = "message" /\ checked # <<>>
    /\ Len(Split(text)) = 2
    /\ Len(movie_cache) = 2
    /\ results = <<movie_cache[2]>>
    /\ \E j \in 1..Len(text) : text[j] = "B"

\* C9: in a search whose loop was entered, send_movie_to_user is called for
\* the first min(n, 10) results in their order, one call at a time, and when
\* the handler has ended it has been called for all of them.
C9_AttemptsAreFirstTenInOrder ==
    LoopEntered =>
        /\ Len(calls) <= Min(Len(results), BatchCap)
        /\ \A i \in 1..Len(calls) :
             /\ calls[i].id = results[i].id
             /\ i < Len(calls) => calls[i].ret # "running"
        /\ pc = "idle" => Len(calls) = Min(Len(results), BatchCap)

\* C10: a message text or inline query of fewer than 2 characters reaches no
\* read path: no staleness check, no refresh, no search of the snapshot, no
\* call of send_movie_to_user.
C10_ShortQueryNeverSearched ==
    (kind \in {"message", "inline"} /\ Len(text) < 2) =>
        /\ checked = <<>>
        /\ results = <<>>
        /\ calls = <<>>
        /\ \A i \in 1..Len(replies) : replies[i].what = "too_short"

\* a one-letter message that a title of the snapshot contains was answered
\* with the "at least 2 characters" text
C10_Witness ==
    /\ kind = "message" /\ Len(text) = 1 /\ pc = "idle"
    /\ replies # <<>> /\ replies[1].what = "too_short" /\ replies[1].result = Ok
    /\ \E i \in 1..Len(movie_cache) : Contains(Lower(text), Lower(movie_cache[i].title))

\* the entries of a snapshot, order aside
EntrySet(cache) == {cache[i] : i \in 1..Len(cache)}

ReadPathStep ==
    /\ pc \in {"idle", "cb"} /\ pc' \notin {"idle", "cb"}
    /\ checked' # <<>>

\* what the read path just run shows was computed from the snapshot cache
AnsweredFrom(cache) ==
    LET answer == replies'[Len(replies')]
    IN  /\ kind' \in {"message", "inline"} => results' = SearchCache(cache, text')
        /\ (kind' = "button" /\ data' = "list_all") =>
              answer = ListAllText(cache, last_cache_refresh')
        /\ (kind' = "button" /\ IsCategoryData(data')) =>
              answer = CategoryText(cache, CategoryOfData(data'))

\* C12: a read path checks staleness on the state it starts in, before it
\* reads the snapshot; it attempts a refresh exactly when the check is true
\* and reads the snapshot after that; when the refresh fails the request is
\* answered from the snapshot held before and the handler does not fail.
C12_CheckThenRefreshThenRead ==
    [][ ReadPathStep =>
          LET k == checked'[1]
          IN  /\ k.now = now /\ k.refreshed = last_cache_refresh
              /\ k.stale = IsStale(now, last_cache_refresh)
              /\ k.stale <=> (refresh_ret' \in {True, False})
              /\ refresh_ret' = True => MirrorsRows(movie_cache', store)
              /\ refresh_ret' \in {False, "none"} => movie_cache' = movie_cache
              /\ AnsweredFrom(movie_cache')
              /\ ~raised' ]_vars

\* a text search found the snapshot stale, the refresh failed, and the search
\* still found entries in the snapshot held before
C12_Witness ==
    /\ kind = "message" /\ pc = "found"
    /\ checked # <<>> /\ checked[1].stale /\ checked[1].ret = False
    /\ refresh_ret = False
    /\ results # <<>>
    /\ ~MirrorsRows(movie_cache, store)

\* C13: when the admin's manual refresh has run, the "Cache refreshed
\* successfully" text is shown exactly when refresh_movie_cache returned True;
\* after a failed store read another text is shown.
C13_SuccessTextOnlyAfterSuccess ==
    [][ (pc = "cb" /\ pc' = "last" /\ MayRefresh(data, user)) =>
          (replies'[Len(replies')].what = "cache_refreshed_successfully"
             <=> refresh_ret' = True) ]_vars

\* C15: no two entries of the snapshot have the same id, so the lookup by id
\* of a search result the snapshot still holds finds that very entry.
C15_SnapshotIdsUnique ==
    /\ \A i, j \in 1..Len(movie_cache) :
         i # j => movie_cache[i].id # movie_cache[j].id
    /\ \A i \in 1..Len(results) :
         (\E j \in 1..Len(movie_cache) : movie_cache[j] = results[i]) =>
             FindMovie(movie_cache, results[i].id) = <<results[i]>>

\* a step of a cache, search or delivery operation
CacheSearchOrDeliveryStep ==
    \/ \E t \in Messages : HandleMessage(OtherUser, t)
    \/ \E q \in InlineQueries : InlineQuery(OtherUser, q)
    \/ \E u \in Users, d \in CallbackData : Button(u, d)
    \/ \E o \in {Ok} \cup Errors : CallbackAnswered(o)
    \/ \E o \in {Ok} \cup Errors : FoundDone(o)
    \/ \E o \in {Ok} \cup Errors : SendDone(o)
    \/ \E o \in {Ok} \cup Errors : LastDone(o)
    \/ \E ok \in BOOLEAN : ConcurrentRefresh(ok)

\* C18: no step of refresh_movie_cache, of the search and browse handlers or
\* of send_movie_to_user changes the rows of the store: a step that changes
\* them is none of these.
C18_ReadSideLeavesStore ==
    [][ store' # store => ~CacheSearchOrDeliveryStep ]_vars

\* a search refreshed the stale snapshot and delivered an entry, and the store
\* still holds the rows the process started with
C18_Witness ==
    /\ kind = "message" /\ pc = "idle" /\ sent_count >= 1
    /\ checked # <<>> /\ checked[1].ret = True
    /\ \E i \in 1..Len(calls) : calls[i].ret = True
    /\ store \in InitStores /\ store # <<>>

\* the calls of send_movie_to_user that delivered
Delivered == {i \in 1..Len(calls) : calls[i].ret = True}

\* the "Could not send any movies" replies of the request
Summaries == {i \in 1..Len(replies) : replies[i].what = "could_not_send"}

\* C19: when a search whose loop was entered has ended, sent_count is the
\* number of calls of send_movie_to_user that delivered, and the "Could not
\* send any movies" reply was sent once if that number is zero and not at all
\* otherwise.
C19_SummaryIffNothingSent ==
    (LoopEntered /\ pc = "idle") =>
        /\ sent_count = Cardinality(Delivered)
        /\ Cardinality(Summaries) = (IF sent_count = 0 THEN 1 ELSE 0)

\* the transport calls of one call that handed the content over
ContentSends(c) == {f \in {"direct", "forward"} : c[f] = Ok}

\* C20: in every call of send_movie_to_user the file_id send is attempted
\* only for an entry with a file_id, the forward only when no file_id send
\* was attempted or it failed, and at most one of the two hands the content
\* over.
C20_ContentAtMostOnce ==
    \A i \in 1..Len(calls) :
        LET c == calls[i]
        IN  /\ c.direct # "none" => (c.found /\ ~Falsy(c.file_id))
            /\ c.forward # "none" => (c.direct = "none" \/ c.direct \in Errors)
            /\ c.direct = Ok => c.forward = "none"
            /\ Cardinality(ContentSends(c)) <= 1

\* of two results the first, without file_id, was forwarded and the second
\* went out by its file_id alone
C20_Witness ==
    /\ Len(calls) = 2
    /\ calls[1].direct = "none" /\ calls[1].forward = Ok
    /\ calls[2].direct = Ok /\ calls[2].forward = "none"
    /\ calls[1].ret = True /\ calls[2].ret = True

\* the titles that more than one row of rows carries, each with the number of
\* rows carrying exactly it
RepeatedTitles(rows) ==
    { <<t, n>> \in {rows[i].title : i \in 1..Len(rows)} \X (2..Len(rows)) :
        n = Cardinality({i \in 1..Len(rows) : rows[i].title = t}) }

\* C14: a find_duplicate_movies whose read went through returns exactly the
\* pairs (title, count) of the titles that more than one row of the store
\* carries, titles compared exactly, whatever the cache holds.
C14_DuplicatesAreRepeatedTitles ==
    (duplicates # <<>> /\ duplicates[1].read_ok) =>
        duplicates[1].ret = RepeatedTitles(store)

\* two rows carry the same title since one of them was retitled; the cache
\* still holds the two titles that differed in letter case
C14_Witness ==
    /\ duplicates # <<>> /\ duplicates[1].read_ok
    /\ duplicates[1].ret = {<<TitleLowerAb, 2>>}
    /\ DuplicateGroups(movie_cache) = {}
    /\ \E i \in 1..Len(movie_cache) : movie_cache[i].title = TitleAb

\* C16: the category of every row of the store is one of the names in table
\* categories.
C16_CategoriesAreManaged ==
    \A i \in 1..Len(store) : store[i].category \in categories

\* C17: a find_duplicate_movies whose read failed returns something other
\* than the empty list it returns when no title is repeated.
C17_FailureDistinctFromNoDuplicates ==
    (duplicates # <<>> /\ ~duplicates[1].read_ok) => duplicates[1].ret # {}

C22_UnknownIdNoTransport ==
    \A i \in 1..Len(calls) :
        ~calls[i].found =>
            /\ calls[i].ret = False
            /\ calls[i].direct = "none" /\ calls[i].forward = "none"
            /\ calls[i].prompt = "none" /\ calls[i].generic = "none"
            /\ calls[i].method = "none"

\* the entry of a search result had left the snapshot when its call was made
C22_Witness ==
    /\ LoopEntered
    /\ \E i \in 1..Len(calls) :
         /\ ~calls[i].found
         /\ calls[i].id = results[i].id
         /\ FindMovie(movie_cache, calls[i].id) = <<>>

\* the message ids of the rows of the store
StoredIds == {store[i].message_id : i \in 1..Len(store)}

\* C23: movie_cache and last_cache_refresh change only in a step in which
\* refresh_movie_cache returned True; a step that writes the store leaves both
\* as they were, and a call of send_movie_to_user for an entry the snapshot
\* still holds goes on to a transport call whether or not the store still
\* has its row.
C23_OnlyRefreshChangesSnapshot ==
    [][ /\ (movie_cache' # movie_cache \/ last_cache_refresh' # last_cache_refresh) =>
              refresh_ret' = True
        /\ store' # store =>
              (movie_cache' = movie_cache /\ last_cache_refresh' = last_cache_refresh)
        /\ \A i \in 1..Len(calls') :
              (calls' # calls /\ i > Len(calls)
                 /\ FindMovie(movie_cache, calls'[i].id) # <<>>) =>
                  /\ calls'[i].found
                  /\ (calls'[i].direct # "none" \/ calls'[i].forward # "none") ]_vars

\* an entry whose row had been deleted from the store was delivered from the
\* snapshot, which no refresh has replaced since
C23_Witness ==
    /\ LoopEntered
    /\ \E i \in 1..Len(calls) :
         /\ calls[i].ret = True
         /\ calls[i].id \notin StoredIds
         /\ FindMovie(movie_cache, calls[i].id) # <<>>

\* C24: the refresh_cache button runs refresh_movie_cache, stale snapshot or
\* not, exactly when the user is ADMIN_USER_ID; pressed by anyone else it
\* leaves movie_cache and last_cache_refresh as they were.
C24_ManualRefreshAdminOnly ==
    [][ (pc = "cb" /\ pc' = "last" /\ data = "refresh_cache") =>
          IF user = ADMIN_USER_ID
          THEN refresh_ret' \in {True, False}
          ELSE /\ refresh_ret' = "none"
               /\ movie_cache' = movie_cache
               /\ last_cache_refresh' = last_cache_refresh ]_vars

\* the admin's button refreshed a snapshot that the staleness check of the
\* read paths does not find stale
C24_Witness ==
    /\ pc = "last" /\ data = "refresh_cache" /\ user = ADMIN_USER_ID
    /\ refresh_ret = True
    /\ now = StartTime /\ last_cache_refresh = now
    /\ ~IsStale(StartTime, StartTime) /\ ~IsStale(StartTime, DatetimeMin)
    /\ movie_cache # <<>>

\* the results handed to answer_inline_query by the request
InlineAnswer == replies[Len(replies)].arg

\* C25: the answer to an inline query holds at most 50 results, one for each
\* of the first matching entries in snapshot order, and each of them refers
\* to an entry with a file_id.
C25_InlineAnswerHasContent ==
    (kind = "inline" /\ replies # <<>>) =>
        /\ Len(InlineAnswer) = Min(Len(results), InlineCap)
        /\ \A i \in 1..Len(InlineAnswer) :
             /\ InlineAnswer[i].id = results[i].id
             /\ ~Falsy(InlineAnswer[i].file_id)

====
